---- MODULE Spec2Model ----
(***************************************************************************)
(* A model of the persistence-identity and backup-metadata layer of        *)
(* sealvault: BackupVersion, BackupMetadata and its file name codec,       *)
(* canonical_json, last_uploaded_backup, Dapp::create_if_not_exists,       *)
(* AccountPicture::insert_bundled and the deterministic id derivation.     *)
(*                                                                         *)
(* Strings are sequences of characters; a character is a one-element       *)
(* string ("a"), or a named code point ("u0663") where the code point is   *)
(* not ASCII.  An i64 is a TLC integer; the range check of a decimal       *)
(* literal is made on its digits against the real bounds of i64, and the   *)
(* literals drawn as inputs either overflow i64 or are below 2^31.         *)
(***************************************************************************)
EXTENDS Integers, Sequences, FiniteSets, TLC

VARIABLES
    \* BackupVersion (metadata.rs 28-73)
    bv_pool,        \* the BackupVersion values that exist
    bv_last,        \* the last construction: operation, input, result
    \* file name codec (metadata.rs 94-177)
    codec_pc, codec_in, codec_name, codec_out,
    \* canonical_json (metadata.rs 105-115)
    json_pc, json_a, json_b, json_out_a, json_out_b,
    \* last_uploaded_backup (metadata.rs 179-217) and its collaborators
    settings, committed, storage, device_id, host_os,
    wtx, clock,
    pc, tx_snapshot, l_datestamp, l_version, l_pair, l_timestamp, l_file_name,
    l_is_uploaded, storage_at_ask, asked, is_uploaded_calls, result,
    \* Dapp::create_if_not_exists (dapp.rs 113-123, 186-207)
    dapps, dapp_first, dapp_calls, dapp_clock,
    \* AccountPicture::insert_bundled (account_picture.rs 46-92)
    profile_pictures, pic_first, pic_calls, pic_clock,
    \* DeriveDeterministicId (dapp.rs 210-219, account_picture.rs 94-102)
    id_pc, id_a, id_b, id_out_a, id_out_b

bvVars == <<bv_pool, bv_last>>
codecVars == <<codec_pc, codec_in, codec_name, codec_out>>
jsonVars == <<json_pc, json_a, json_b, json_out_a, json_out_b>>
backupVars == <<settings, committed, storage, device_id, host_os, wtx, clock,
                pc, tx_snapshot, l_datestamp, l_version, l_pair, l_timestamp,
                l_file_name, l_is_uploaded, storage_at_ask, asked,
                is_uploaded_calls, result>>
dappVars == <<dapps, dapp_first, dapp_calls, dapp_clock>>
picVars == <<profile_pictures, pic_first, pic_calls, pic_clock>>
idVars == <<id_pc, id_a, id_b, id_out_a, id_out_b>>
vars == <<bvVars, codecVars, jsonVars, backupVars, dappVars, picVars, idVars>>

-----------------------------------------------------------------------------
(* Results and errors                                                      *)

None == [some |-> FALSE]
Some(v) == [some |-> TRUE, val |-> v]

Ok(v) == [ok |-> TRUE, val |-> v]
Err(kind) == [ok |-> FALSE, err |-> kind]

-----------------------------------------------------------------------------
(* Characters and decimal numerals                                         *)

DigitChars == <<"0", "1", "2", "3", "4", "5", "6", "7", "8", "9">>
AsciiDigit == {DigitChars[i] : i \in 1..10}
Lower == {"a", "b", "c", "d", "e", "f", "g", "h", "i", "j", "k", "l", "m",
          "n", "o", "p", "q", "r", "s", "t", "u", "v", "w", "x", "y", "z"}
Upper == {"A", "B", "C", "D", "E", "F", "G", "H", "I", "J", "K", "L", "M",
          "N", "O", "P", "Q", "R", "S", "T", "U", "V", "W", "X", "Y", "Z"}

DigitVal(c) == (CHOOSE i \in 1..10 : DigitChars[i] = c) - 1

RECURSIVE Concat(_)
Concat(ss) == IF ss = <<>> THEN <<>> ELSE Head(ss) \o Concat(Tail(ss))

RECURSIVE StripZeros(_)
StripZeros(ds) ==
    IF Len(ds) > 1 /\ Head(ds) = "0" THEN StripZeros(Tail(ds)) ELSE ds

\* a <= b for numerals without leading zeros
RECURSIVE LexLeq(_, _)
LexLeq(a, b) ==
    IF a = <<>> THEN TRUE
    ELSE IF DigitVal(Head(a)) # DigitVal(Head(b))
         THEN DigitVal(Head(a)) < DigitVal(Head(b))
         ELSE LexLeq(Tail(a), Tail(b))

NumeralLeq(a, b) ==
    \/ Len(a) < Len(b)
    \/ Len(a) = Len(b) /\ LexLeq(a, b)

I64MaxDigits == <<"9","2","2","3","3","7","2","0","3","6","8","5","4","7","7","5","8","0","7">>
I64MinDigits == <<"9","2","2","3","3","7","2","0","3","6","8","5","4","7","7","5","8","0","8">>

RECURSIVE DigitsValue(_, _)
DigitsValue(ds, acc) ==
    IF ds = <<>> THEN acc ELSE DigitsValue(Tail(ds), 10 * acc + DigitVal(Head(ds)))

RECURSIVE NatToDigits(_)
NatToDigits(n) ==
    IF n < 10 THEN <<DigitChars[n + 1]>>
    ELSE NatToDigits(n \div 10) \o <<DigitChars[(n % 10) + 1]>>

\* Display for i64
i64_to_string(n) == IF n < 0 THEN <<"-">> \o NatToDigits(-n) ELSE NatToDigits(n)

\* <i64 as FromStr>::from_str: an optional sign, then one or more ASCII digits,
\* the value within the range of i64
i64_from_str(s) ==
    IF s = <<>> THEN Err("ParseIntError")
    ELSE LET neg == Head(s) = "-"
             ds == IF Head(s) \in {"-", "+"} THEN Tail(s) ELSE s
         IN IF ds = <<>> \/ \E i \in 1..Len(ds) : ds[i] \notin AsciiDigit
            THEN Err("ParseIntError")
            ELSE IF ~NumeralLeq(StripZeros(ds), IF neg THEN I64MinDigits ELSE I64MaxDigits)
            THEN Err("ParseIntError")
            ELSE Ok(IF neg THEN -DigitsValue(ds, 0) ELSE DigitsValue(ds, 0))

-----------------------------------------------------------------------------
(* BackupVersion (metadata.rs 28-73)                                       *)

\* a mutant: the range check left out
BackupVersion_try_from_unchecked(value) == Ok(value)

\* impl TryFrom<i64> for BackupVersion
BackupVersion_try_from(value) ==
    IF value < 0 THEN Err("Fatal") ELSE Ok(value)

\* a mutant: the parse error reported as Fatal
BackupVersion_from_str_fatal(s) ==
    LET value == i64_from_str(s)
    IN IF ~value.ok THEN Err("Fatal") ELSE BackupVersion_try_from(value.val)

\* impl FromStr for BackupVersion
BackupVersion_from_str(s) ==
    LET value == i64_from_str(s)
    IN IF ~value.ok THEN Err("Retriable") ELSE BackupVersion_try_from(value.val)

\* #[serde(try_from = "i64")]: an integer is deserialized through try_from; the
\* conversion error becomes the deserializer's error
BackupVersion_deserialize(n) ==
    LET r == BackupVersion_try_from(n)
    IN IF r.ok THEN r ELSE Err("Deserialize")

\* #[derive(Into)], #[serde(into = "i64")]
BackupVersion_into_i64(v) == v

\* #[derive(Display)]
BackupVersion_to_string(v) == i64_to_string(v)

-----------------------------------------------------------------------------
(* BackupScheme, OperatingSystem, DeviceIdentifier: their string forms     *)

BackupSchemes == {"V1"}
BackupScheme_to_string(scheme) == <<"v", "1">>

OperatingSystems == {"Android", "Ios", "MacOS"}
OperatingSystem_to_string(os) ==
    CASE os = "Android" -> <<"a", "n", "d", "r", "o", "i", "d">>
      [] os = "Ios" -> <<"i", "o", "s">>
      [] os = "MacOS" -> <<"m", "a", "c", "-", "o", "s">>

OperatingSystem_from_str(s) ==
    IF \E os \in OperatingSystems : OperatingSystem_to_string(os) = s
    THEN Ok(CHOOSE os \in OperatingSystems : OperatingSystem_to_string(os) = s)
    ELSE Err("ParseError")

DeviceIdentifier_to_string(id) == id
DeviceIdentifier_from_str(s) == Ok(s)

\* Error: From<<T as FromStr>::Err> for the errors of i64, OperatingSystem and
\* DeviceIdentifier
Error_from_parse_error(e) == Err("Fatal")

-----------------------------------------------------------------------------
(* The backup file name (metadata.rs 23-26, 94-177)                        *)

FileNamePrefix ==
    <<"s","e","a","l","v","a","u","l","t","_","b","a","c","k","u","p","_">>
FileNameSuffix == <<".", "z", "i", "p">>

\* [A-Za-z0-9-]
TokenChar == Lower \cup Upper \cup AsciiDigit \cup {"-"}
\* \d of a Unicode-aware pattern: every decimal digit of Unicode, of which the
\* model holds the ASCII ones and ARABIC-INDIC DIGIT THREE
RegexDigit == AsciiDigit \cup {"u0663"}

RECURSIVE SplitOn(_, _, _)
SplitOn(s, sep, cur) ==
    IF s = <<>> THEN <<cur>>
    ELSE IF Head(s) = sep THEN <<cur>> \o SplitOn(Tail(s), sep, <<>>)
    ELSE SplitOn(Tail(s), sep, Append(cur, Head(s)))

OneOrMore(s, class) == s # <<>> /\ \A i \in 1..Len(s) : s[i] \in class

StartsWith(s, p) == Len(s) >= Len(p) /\ SubSeq(s, 1, Len(p)) = p
EndsWith(s, p) == Len(s) >= Len(p) /\ SubSeq(s, Len(s) - Len(p) + 1, Len(s)) = p

\* a mutant: the pattern with the scheme as the literal v1
BACKUP_FILE_NAME_REGEX_captures_literal_scheme(file_name) ==
    IF StartsWith(file_name, FileNamePrefix) /\ EndsWith(file_name, FileNameSuffix)
       /\ Len(file_name) >= Len(FileNamePrefix) + Len(FileNameSuffix)
    THEN LET f == SplitOn(SubSeq(file_name, Len(FileNamePrefix) + 1,
                                 Len(file_name) - Len(FileNameSuffix)), "_", <<>>)
         IN IF Len(f) = 5 /\ f[1] = <<"v", "1">> /\ OneOrMore(f[2], TokenChar)
               /\ OneOrMore(f[3], RegexDigit) /\ OneOrMore(f[4], TokenChar)
               /\ OneOrMore(f[5], RegexDigit)
            THEN Some([scheme |-> f[1], os |-> f[2], timestamp |-> f[3],
                       device_id |-> f[4], version |-> f[5]])
            ELSE None
    ELSE None

\* BACKUP_FILE_NAME_REGEX.captures(file_name): the fields' classes hold neither
\* "_" nor ".", so a match is the one split of the middle on "_" into five fields
BACKUP_FILE_NAME_REGEX_captures(file_name) ==
    IF StartsWith(file_name, FileNamePrefix) /\ EndsWith(file_name, FileNameSuffix)
       /\ Len(file_name) >= Len(FileNamePrefix) + Len(FileNameSuffix)
    THEN LET f == SplitOn(SubSeq(file_name, Len(FileNamePrefix) + 1,
                                 Len(file_name) - Len(FileNameSuffix)), "_", <<>>)
         IN IF Len(f) = 5 /\ OneOrMore(f[1], TokenChar) /\ OneOrMore(f[2], TokenChar)
               /\ OneOrMore(f[3], RegexDigit) /\ OneOrMore(f[4], TokenChar)
               /\ OneOrMore(f[5], RegexDigit)
            THEN Some([scheme |-> f[1], os |-> f[2], timestamp |-> f[3],
                       device_id |-> f[4], version |-> f[5]])
            ELSE None
    ELSE None

\* a mutant: version written before device id
get_backup_file_name_swapped(backup_scheme, os, timestamp, dev, backup_version) ==
    Concat(<<FileNamePrefix, BackupScheme_to_string(backup_scheme), <<"_">>,
             OperatingSystem_to_string(os), <<"_">>, i64_to_string(timestamp), <<"_">>,
             BackupVersion_to_string(backup_version), <<"_">>,
             DeviceIdentifier_to_string(dev), FileNameSuffix>>)

\* get_backup_file_name
get_backup_file_name(backup_scheme, os, timestamp, dev, backup_version) ==
    Concat(<<FileNamePrefix, BackupScheme_to_string(backup_scheme), <<"_">>,
             OperatingSystem_to_string(os), <<"_">>, i64_to_string(timestamp), <<"_">>,
             DeviceIdentifier_to_string(dev), <<"_">>,
             BackupVersion_to_string(backup_version), FileNameSuffix>>)

\* BackupMetadata::backup_file_name
BackupMetadata_backup_file_name(m) ==
    get_backup_file_name(m.backup_scheme, m.operating_system, m.timestamp,
                         m.device_id, m.backup_version)

\* parse_field_from_backup_file_name::<T>, T being the type of the field `name`
parse_field_from_backup_file_name(captures, name) ==
    LET group == captures[name]
    IN CASE name = "timestamp" ->
              LET value == i64_from_str(group)
              IN IF value.ok THEN value ELSE Error_from_parse_error(value.err)
         [] name = "os" ->
              LET value == OperatingSystem_from_str(group)
              IN IF value.ok THEN value ELSE Error_from_parse_error(value.err)
         [] name = "device_id" ->
              LET value == DeviceIdentifier_from_str(group)
              IN IF value.ok THEN value ELSE Error_from_parse_error(value.err)
         [] name = "version" -> BackupVersion_from_str(group)

\* impl FromStr for MetadataFromFileName
MetadataFromFileName_from_str(file_name) ==
    LET captures == BACKUP_FILE_NAME_REGEX_captures(file_name)
    IN IF ~captures.some THEN Err("Fatal")
       ELSE LET timestamp == parse_field_from_backup_file_name(captures.val, "timestamp")
                os == parse_field_from_backup_file_name(captures.val, "os")
                dev == parse_field_from_backup_file_name(captures.val, "device_id")
                backup_version == parse_field_from_backup_file_name(captures.val, "version")
            IN IF ~timestamp.ok THEN timestamp
               ELSE IF ~os.ok THEN os
               ELSE IF ~dev.ok THEN dev
               ELSE IF ~backup_version.ok THEN backup_version
               ELSE Ok([timestamp |-> timestamp.val, os |-> os.val,
                        device_id |-> dev.val, backup_version |-> backup_version.val])

-----------------------------------------------------------------------------
(* Components that a specification leaves out stay in these states         *)

NoMeta == [backup_scheme |-> "V1", backup_version |-> 0, timestamp |-> 0,
           device_id |-> <<>>, device_name |-> <<>>, operating_system |-> "Ios",
           kdf_nonce |-> <<>>]

BvOff == bv_pool = {} /\ bv_last = [op |-> "off", n |-> 0, s |-> <<>>, res |-> Ok(0)]
CodecOff ==
    /\ codec_pc = "off"
    /\ codec_in = [kind |-> "off", meta |-> NoMeta, name |-> <<>>]
    /\ codec_name = <<>>
    /\ codec_out = Err("off")

JsonOff ==
    /\ json_pc = "off" /\ json_a = NoMeta /\ json_b = NoMeta
    /\ json_out_a = <<>> /\ json_out_b = <<>>
BackupOff ==
    /\ settings = [version |-> 0, timestamp |-> None]
    /\ committed = {} /\ storage = {} /\ device_id = <<>> /\ host_os = "Ios"
    /\ wtx = [stage |-> "closed", version |-> 0, timestamp |-> None]
    /\ clock = 0
    /\ pc = "off"
    /\ tx_snapshot = [open |-> FALSE, taken |-> FALSE,
                      view |-> [version |-> 0, timestamp |-> None]]
    /\ l_datestamp = None /\ l_version = 0 /\ l_pair = None
    /\ l_timestamp = 0 /\ l_file_name = <<>> /\ l_is_uploaded = FALSE
    /\ storage_at_ask = {} /\ asked = <<>> /\ is_uploaded_calls = 0
    /\ result = Err("off")
DappOff == dapps = {} /\ dapp_first = {} /\ dapp_calls = <<>> /\ dapp_clock = 0
PicOff ==
    profile_pictures = {} /\ pic_first = {} /\ pic_calls = <<>> /\ pic_clock = 0
IdOff ==
    /\ id_pc = "off"
    /\ id_a = [kind |-> "Dapp", key |-> <<>>] /\ id_b = [kind |-> "Dapp", key |-> <<>>]
    /\ id_out_a = [digest_of |-> <<>>] /\ id_out_b = [digest_of |-> <<>>]

-----------------------------------------------------------------------------
(* BackupVersion: the constructions and the uses of a value                *)

MaxBvInput == 3
IntInputs == (0 - MaxBvInput)..MaxBvInput

Str_0 == <<"0">>
Str_7 == <<"7">>
Str_plus5 == <<"+", "5">>
Str_007 == <<"0", "0", "7">>
Str_minus0 == <<"-", "0">>
Str_minus1 == <<"-", "1">>
Str_minus12 == <<"-", "1", "2">>
Str_empty == <<>>
Str_minus == <<"-">>
Str_abc == <<"a", "b", "c">>
Str_1x == <<"1", "x">>
Str_sp1 == <<" ", "1">>
Str_arabic3 == <<"u0663">>
\* i64::MAX + 1 and i64::MIN - 1
Str_over == <<"9","2","2","3","3","7","2","0","3","6","8","5","4","7","7","5","8","0","8">>
Str_under == <<"-","9","2","2","3","3","7","2","0","3","6","8","5","4","7","7","5","8","0","9">>
Str_20digits == <<"9","9","9","9","9","9","9","9","9","9","9","9","9","9","9","9","9","9","9","9">>

StrInputs == {Str_0, Str_7, Str_plus5, Str_007, Str_minus0, Str_minus1, Str_minus12,
              Str_empty, Str_minus, Str_abc, Str_1x, Str_sp1, Str_arabic3,
              Str_over, Str_under, Str_20digits}

BvInit ==
    /\ bv_pool = {}
    /\ bv_last = [op |-> "none", n |-> 0, s |-> <<>>, res |-> Ok(0)]

BvKeep(r) == bv_pool' = IF r.ok THEN bv_pool \cup {r.val} ELSE bv_pool

TryFrom(n) ==
    LET r == BackupVersion_try_from(n)
    IN /\ BvKeep(r)
       /\ bv_last' = [op |-> "try_from", n |-> n, s |-> <<>>, res |-> r]

FromStr(s) ==
    LET r == BackupVersion_from_str(s)
    IN /\ BvKeep(r)
       /\ bv_last' = [op |-> "from_str", n |-> 0, s |-> s, res |-> r]

Deserialize(n) ==
    LET r == BackupVersion_deserialize(n)
    IN /\ BvKeep(r)
       /\ bv_last' = [op |-> "deserialize", n |-> n, s |-> <<>>, res |-> r]

\* the uses of an existing value: Into<i64>, Display; Copy leaves the pool as it is
IntoI64(v) ==
    /\ bv_pool' = bv_pool
    /\ bv_last' = [op |-> "into", n |-> v, s |-> BackupVersion_to_string(v),
                   res |-> Ok(BackupVersion_into_i64(v))]

-----------------------------------------------------------------------------
(* The file name codec: encode a BackupMetadata, parse a file name         *)

MaxCodecVersion == 2
CodecTimestamps == {-5, 0, 7, 1700000000}
CodecDeviceIds == {<<"d", "-", "1">>, <<"D", "2">>, <<"4", "2">>}

MetaInputs ==
    [backup_scheme : BackupSchemes,
     backup_version : {v \in 0..MaxCodecVersion : BackupVersion_try_from(v).ok},
     timestamp : CodecTimestamps,
     device_id : CodecDeviceIds,
     device_name : {<<"a">>},
     operating_system : OperatingSystems,
     kdf_nonce : {<<"n">>}]

PrefixInputs == {FileNamePrefix, Tail(FileNamePrefix), <<"x">> \o FileNamePrefix}
SchemeInputs == {<<"v", "1">>, <<"z", "z">>, <<"v", ".", "1">>, <<>>}
OsInputs == {<<"i", "o", "s">>, <<"m", "a", "c", "-", "o", "s">>, <<"z", "z">>, <<>>}
TimestampInputs == {<<"5">>, Str_007, Str_minus1, Str_20digits, Str_arabic3}
DeviceInputs == {<<"d", "-", "1">>, <<"d", "_", "1">>}
VersionInputs == {<<"3">>, Str_minus1, Str_over, Str_arabic3, <<>>}
SuffixInputs == {FileNameSuffix, <<".", "z", "i">>, <<"x", "z", "i", "p">>,
                 FileNameSuffix \o <<"\n">>}

NameInputs ==
    {Concat(<<p, sc, <<"_">>, os, <<"_">>, ts, <<"_">>, dev, <<"_">>, ver, suf>>) :
        p \in PrefixInputs, sc \in SchemeInputs, os \in OsInputs, ts \in TimestampInputs,
        dev \in DeviceInputs, ver \in VersionInputs, suf \in SuffixInputs}

CodecInit ==
    /\ codec_pc = "start"
    /\ \/ \E m \in MetaInputs :
            /\ codec_in = [kind |-> "meta", meta |-> m, name |-> <<>>]
            /\ codec_name = <<>>
       \/ \E s \in NameInputs :
            /\ codec_in = [kind |-> "name", meta |-> NoMeta, name |-> s]
            /\ codec_name = s
    /\ codec_out = Err("none")

BackupFileName ==
    /\ codec_pc = "start" /\ codec_in.kind = "meta"
    /\ codec_name' = BackupMetadata_backup_file_name(codec_in.meta)
    /\ codec_pc' = "named"
    /\ UNCHANGED <<codec_in, codec_out>>

ParseFileName ==
    /\ \/ codec_pc = "named"
       \/ codec_pc = "start" /\ codec_in.kind = "name"
    /\ codec_out' = MetadataFromFileName_from_str(codec_name)
    /\ codec_pc' = "parsed"
    /\ UNCHANGED <<codec_in, codec_name>>

-----------------------------------------------------------------------------
(* last_uploaded_backup (metadata.rs 179-217), the local settings it reads *)
(* and the backup storage it asks                                          *)

MaxBackupVersion == 2
MaxUploads == 2
BackupDeviceIds == {<<"d", "-", "1">>}
\* the platforms the build may detect as its default
HostSystems == {"Ios", "MacOS"}

Rfc3339Prefix ==
    <<"1","9","7","0","-","0","1","-","0","1","T","0","0",":","0","0",":">>
Rfc3339Suffix == <<"Z">>

\* utils::rfc3339_timestamp at the unix time t, within the first minute of 1970
rfc3339_timestamp(t) ==
    Concat(<<Rfc3339Prefix, IF t < 10 THEN <<"0">> ELSE <<>>, NatToDigits(t),
             Rfc3339Suffix>>)

\* utils::parse_rfc3339_timestamp followed by DateTime::timestamp
parse_rfc3339_timestamp(s) ==
    IF /\ Len(s) = Len(Rfc3339Prefix) + 2 + Len(Rfc3339Suffix)
       /\ StartsWith(s, Rfc3339Prefix) /\ EndsWith(s, Rfc3339Suffix)
       /\ s[Len(Rfc3339Prefix) + 1] \in {"0", "1", "2", "3", "4", "5"}
       /\ s[Len(Rfc3339Prefix) + 2] \in AsciiDigit
    THEN Ok(DigitsValue(SubSeq(s, Len(Rfc3339Prefix) + 1, Len(Rfc3339Prefix) + 2), 0))
    ELSE Err("ParseError")

\* a timestamp column that holds no RFC 3339 date
CorruptDatestamp == <<"n", "o", "w">>

NoView == [version |-> 0, timestamp |-> None]

BackupInit ==
    /\ \E d \in {None, Some(CorruptDatestamp)} :
          /\ settings = [version |-> 0, timestamp |-> d]
          /\ committed = {[version |-> 0, timestamp |-> d]}
    /\ storage = {}
    /\ device_id \in BackupDeviceIds
    /\ host_os \in HostSystems
    /\ wtx = [stage |-> "closed", version |-> 0, timestamp |-> None]
    /\ clock = 1
    /\ pc = "idle"
    /\ tx_snapshot = [open |-> FALSE, taken |-> FALSE, view |-> NoView]
    /\ l_datestamp = None /\ l_version = 0 /\ l_pair = None
    /\ l_timestamp = 0 /\ l_file_name = <<>> /\ l_is_uploaded = FALSE
    /\ storage_at_ask = {} /\ asked = <<>> /\ is_uploaded_calls = 0
    /\ result = Err("none")

readerVars == <<pc, tx_snapshot, l_datestamp, l_version, l_pair, l_timestamp,
                l_file_name, l_is_uploaded, storage_at_ask, asked,
                is_uploaded_calls, result>>
worldVars == <<settings, committed, storage, device_id, host_os, wtx, clock>>

(* The writer: a backup is created in one transaction that advances the     *)
(* version and then sets the timestamp, both invisible to other connections *)
(* until the commit; the archive is copied to the storage afterwards.       *)

WriterBegin ==
    /\ wtx.stage = "closed" /\ settings.version < MaxBackupVersion
    /\ wtx' = [stage |-> "begun", version |-> settings.version,
               timestamp |-> settings.timestamp]
    /\ UNCHANGED <<settings, committed, storage, device_id, host_os, clock, readerVars>>

WriterIncrementVersion ==
    /\ wtx.stage = "begun"
    /\ wtx' = [wtx EXCEPT !.stage = "version", !.version = @ + 1]
    /\ UNCHANGED <<settings, committed, storage, device_id, host_os, clock, readerVars>>

WriterSetTimestamp ==
    /\ wtx.stage = "version"
    /\ wtx' = [wtx EXCEPT !.stage = "timestamp",
                          !.timestamp = Some(rfc3339_timestamp(clock))]
    /\ clock' = clock + 1
    /\ UNCHANGED <<settings, committed, storage, device_id, host_os, readerVars>>

WriterCommit ==
    /\ wtx.stage = "timestamp"
    /\ settings' = [version |-> wtx.version, timestamp |-> wtx.timestamp]
    /\ committed' = committed \cup {settings'}
    /\ wtx' = [stage |-> "closed", version |-> 0, timestamp |-> None]
    /\ UNCHANGED <<storage, device_id, host_os, clock, readerVars>>

\* the archive of a committed backup reaches the storage
Upload ==
    /\ Cardinality(storage) < MaxUploads
    /\ \E s \in committed :
          /\ s.timestamp.some /\ parse_rfc3339_timestamp(s.timestamp.val).ok
          /\ storage' = storage \cup
                {get_backup_file_name("V1", host_os,
                                      parse_rfc3339_timestamp(s.timestamp.val).val,
                                      device_id, s.version)}
    /\ UNCHANGED <<settings, committed, device_id, host_os, wtx, clock, readerVars>>

DeleteBackup ==
    /\ \E f \in storage : storage' = storage \ {f}
    /\ UNCHANGED <<settings, committed, device_id, host_os, wtx, clock, readerVars>>

(* The call *)

\* connection_pool().deferred_transaction(..): BEGIN DEFERRED takes no lock and
\* reads nothing
DeferredTransactionBegin ==
    /\ pc = "idle"
    /\ pc' = "fetch_timestamp"
    /\ tx_snapshot' = [open |-> TRUE, taken |-> FALSE, view |-> NoView]
    /\ UNCHANGED <<l_datestamp, l_version, l_pair, l_timestamp, l_file_name,
                   l_is_uploaded, storage_at_ask, asked, is_uploaded_calls, result, worldVars>>

\* what a read inside the transaction sees: the first read fixes the view
TxView == IF tx_snapshot.taken THEN tx_snapshot.view ELSE settings

\* m::LocalSettings::fetch_backup_timestamp(tx_conn)
FetchBackupTimestamp ==
    /\ pc = "fetch_timestamp"
    /\ tx_snapshot' = [tx_snapshot EXCEPT !.taken = TRUE, !.view = TxView]
    /\ l_datestamp' = TxView.timestamp
    /\ pc' = "fetch_version"
    /\ UNCHANGED <<l_version, l_pair, l_timestamp, l_file_name, l_is_uploaded,
                   storage_at_ask, asked, is_uploaded_calls, result, worldVars>>

\* a mutant: the version read on a connection outside the transaction
FetchBackupVersion_outside_transaction ==
    /\ pc = "fetch_version"
    /\ l_version' = settings.version
    /\ pc' = "commit"
    /\ UNCHANGED <<tx_snapshot, l_datestamp, l_pair, l_timestamp, l_file_name,
                   l_is_uploaded, storage_at_ask, asked, is_uploaded_calls, result, worldVars>>

\* m::LocalSettings::fetch_backup_version(tx_conn)
FetchBackupVersion ==
    /\ pc = "fetch_version"
    /\ tx_snapshot' = [tx_snapshot EXCEPT !.taken = TRUE, !.view = TxView]
    /\ l_version' = TxView.version
    /\ pc' = "commit"
    /\ UNCHANGED <<l_datestamp, l_pair, l_timestamp, l_file_name, l_is_uploaded,
                   storage_at_ask, asked, is_uploaded_calls, result, worldVars>>

\* a mutant: the rest of the function moved into the closure, so that the
\* transaction is still open when the storage is asked
DeferredTransactionEnd_left_open ==
    /\ pc = "commit"
    /\ l_pair' = Some(<<l_version, l_datestamp>>)
    /\ pc' = "match"
    /\ UNCHANGED <<tx_snapshot, l_datestamp, l_version, l_timestamp, l_file_name,
                   l_is_uploaded, storage_at_ask, asked, is_uploaded_calls, result,
                   worldVars>>

\* Ok((backup_version, timestamp)) and the end of the transaction
DeferredTransactionEnd ==
    /\ pc = "commit"
    /\ tx_snapshot' = [tx_snapshot EXCEPT !.open = FALSE]
    /\ l_pair' = Some(<<l_version, l_datestamp>>)
    /\ pc' = "match"
    /\ UNCHANGED <<l_datestamp, l_version, l_timestamp, l_file_name, l_is_uploaded,
                   storage_at_ask, asked, is_uploaded_calls, result, worldVars>>

\* a fetch or the transaction itself fails: the `?` of lines 189, 191 and 193
TransactionFails ==
    /\ pc \in {"fetch_timestamp", "fetch_version", "commit"}
    /\ tx_snapshot' = [tx_snapshot EXCEPT !.open = FALSE]
    /\ \E kind \in {"Fatal", "Retriable"} : result' = Err(kind)
    /\ pc' = "done"
    /\ UNCHANGED <<l_datestamp, l_version, l_pair, l_timestamp, l_file_name,
                   l_is_uploaded, storage_at_ask, asked, is_uploaded_calls, worldVars>>

\* a mutant: a datestamp that does not parse taken as the unix time 0 instead of
\* being returned as the error
MatchDatestamp_unwrap_or_default ==
    /\ pc = "match"
    /\ LET datestamp == l_pair.val[2]
           backup_version == l_pair.val[1]
       IN IF ~datestamp.some
          THEN /\ result' = Ok(None) /\ pc' = "done"
               /\ UNCHANGED <<l_timestamp, l_file_name>>
          ELSE LET datetime == parse_rfc3339_timestamp(datestamp.val)
                   timestamp == IF datetime.ok THEN datetime.val ELSE 0
               IN /\ l_timestamp' = timestamp
                  /\ l_file_name' = get_backup_file_name("V1", host_os, timestamp,
                                                         device_id, backup_version)
                  /\ pc' = "is_uploaded"
                  /\ UNCHANGED result
    /\ UNCHANGED <<tx_snapshot, l_datestamp, l_version, l_pair, l_is_uploaded,
                   storage_at_ask, asked, is_uploaded_calls, worldVars>>

\* match datestamp { None => Ok(None), Some(datestamp) => parse, file name }
MatchDatestamp ==
    /\ pc = "match"
    /\ LET datestamp == l_pair.val[2]
           backup_version == l_pair.val[1]
       IN IF ~datestamp.some
          THEN /\ result' = Ok(None) /\ pc' = "done"
               /\ UNCHANGED <<l_timestamp, l_file_name>>
          ELSE LET datetime == parse_rfc3339_timestamp(datestamp.val)
               IN IF ~datetime.ok
                  THEN /\ result' = datetime /\ pc' = "done"
                       /\ UNCHANGED <<l_timestamp, l_file_name>>
                  ELSE /\ l_timestamp' = datetime.val
                       /\ l_file_name' = get_backup_file_name("V1", host_os, datetime.val,
                                                              device_id, backup_version)
                       /\ pc' = "is_uploaded"
                       /\ UNCHANGED result
    /\ UNCHANGED <<tx_snapshot, l_datestamp, l_version, l_pair, l_is_uploaded,
                   storage_at_ask, asked, is_uploaded_calls, worldVars>>

\* resources.backup_storage().is_uploaded(backup_file_name)
IsUploaded ==
    /\ pc = "is_uploaded"
    /\ l_is_uploaded' = (l_file_name \in storage)
    /\ asked' = l_file_name
    /\ storage_at_ask' = storage
    /\ is_uploaded_calls' = is_uploaded_calls + 1
    /\ pc' = "return"
    /\ UNCHANGED <<tx_snapshot, l_datestamp, l_version, l_pair, l_timestamp,
                   l_file_name, result, worldVars>>

\* a mutant: the recorded timestamp trusted whatever the storage says
last_uploaded_backup_result_trusting(is_uploaded, timestamp) == Ok(Some(timestamp))

\* if is_uploaded { Ok(Some(timestamp)) } else { Ok(None) }
last_uploaded_backup_result(is_uploaded, timestamp) ==
    IF is_uploaded THEN Ok(Some(timestamp)) ELSE Ok(None)

Return ==
    /\ pc = "return"
    /\ result' = last_uploaded_backup_result(l_is_uploaded, l_timestamp)
    /\ pc' = "done"
    /\ UNCHANGED <<tx_snapshot, l_datestamp, l_version, l_pair, l_timestamp,
                   l_file_name, l_is_uploaded, storage_at_ask, asked, is_uploaded_calls, worldVars>>

\* the caller takes the result; the next call may start
NextCall ==
    /\ pc = "done"
    /\ pc' = "idle"
    /\ tx_snapshot' = [open |-> FALSE, taken |-> FALSE, view |-> NoView]
    /\ l_datestamp' = None /\ l_version' = 0 /\ l_pair' = None
    /\ l_timestamp' = 0 /\ l_file_name' = <<>> /\ l_is_uploaded' = FALSE
    /\ storage_at_ask' = {} /\ asked' = <<>> /\ is_uploaded_calls' = 0
    /\ result' = Err("none")
    /\ UNCHANGED worldVars

-----------------------------------------------------------------------------
(* Deterministic ids (dapp.rs 210-219, account_picture.rs 94-102)          *)

\* the bytes of an EntityName in the hash input
EntityName_bytes(entity_name) ==
    CASE entity_name = "Dapp" -> <<"D", "a", "p", "p">>
      [] entity_name = "AccountPicture" ->
            <<"A","c","c","o","u","n","t","P","i","c","t","u","r","e">>

\* a hash without collisions: the digest stands for its input
Hash(bytes) == [digest_of |-> bytes]

\* DeriveDeterministicId::deterministic_id: H(namespace_tag || unique_key_1 || ...)
deterministic_id(entity_name, unique_columns) ==
    Hash(EntityName_bytes(entity_name) \o Concat(unique_columns))

\* a mutant: the tag of another entity kind
DappEntity_entity_name_of_picture == "AccountPicture"

\* impl DeriveDeterministicId for DappEntity: entity_name
DappEntity_entity_name == "Dapp"

\* impl DeriveDeterministicId for DappEntity: unique_columns
DappEntity_unique_columns(entity) == <<entity.identifier>>

DappEntity_deterministic_id(entity) ==
    deterministic_id(DappEntity_entity_name, DappEntity_unique_columns(entity))

\* impl DeriveDeterministicId for AccountPictureEntity: entity_name
AccountPictureEntity_entity_name == "AccountPicture"

\* impl DeriveDeterministicId for AccountPictureEntity: unique_columns
AccountPictureEntity_unique_columns(entity) == <<entity.image_hash>>

AccountPictureEntity_deterministic_id(entity) ==
    deterministic_id(AccountPictureEntity_entity_name,
                     AccountPictureEntity_unique_columns(entity))

-----------------------------------------------------------------------------
(* Dapp::create_if_not_exists (dapp.rs 113-123, 144-155, 186-207)          *)

NDappCalls == 2

\* a url: the labels of its host (none: an origin without a host) and its path
Urls ==
    {[host |-> <<"w", "e", "c">>, path |-> <<"/">>],
     [host |-> <<"w", "e", "c">>, path |-> <<"/", "a">>],
     [host |-> <<"a", "e", "c">>, path |-> <<"/">>],
     [host |-> <<"o", "c">>, path |-> <<"/">>],
     [host |-> <<"l">>, path |-> <<"/">>],
     [host |-> <<>>, path |-> <<"x">>]}

RECURSIVE JoinLabels(_)
JoinLabels(labels) ==
    IF Len(labels) <= 1 THEN labels
    ELSE <<Head(labels), ".">> \o JoinLabels(Tail(labels))

\* url.origin().ascii_serialization()
Origin_ascii_serialization(url) ==
    <<"h", "t", "t", "p", "s", ":", "/", "/">> \o JoinLabels(url.host)

\* PublicSuffixList::registrable_domain: the public suffix and the label before
\* it; none for a host of one label; an error for an origin without a host
PublicSuffixList_registrable_domain(url) ==
    IF url.host = <<>> THEN Err("Fatal")
    ELSE IF Len(url.host) >= 2
    THEN Ok(Some(JoinLabels(SubSeq(url.host, Len(url.host) - 1, Len(url.host)))))
    ELSE Ok(None)

\* DappEntity::new
DappEntity_new(url) ==
    LET registrable_domain == PublicSuffixList_registrable_domain(url)
    IN IF ~registrable_domain.ok THEN registrable_domain
       ELSE Ok([identifier |-> IF registrable_domain.val.some
                               THEN registrable_domain.val.val
                               ELSE Origin_ascii_serialization(url),
                url |-> url])

HasRow(table, id) == \E r \in table : r.deterministic_id = id

\* a mutant: the conflicting row replaced
insert_or_replace(table, row) ==
    [table |-> {r \in table : r.deterministic_id # row.deterministic_id} \cup {row},
     res |-> Ok(1)]

\* diesel::insert_into(..).values(..).on_conflict_do_nothing().execute(conn)
insert_on_conflict_do_nothing(table, row) ==
    IF HasRow(table, row.deterministic_id)
    THEN [table |-> table, res |-> Ok(0)]
    ELSE [table |-> table \cup {row}, res |-> Ok(1)]

NoEntity == [identifier |-> <<>>, url |-> [host |-> <<>>, path |-> <<>>]]
NoId == Hash(<<>>)
IdleCall == [pc |-> "idle", entity |-> NoEntity, id |-> NoId, created_at |-> <<>>,
             result |-> Err("none")]

DappInit ==
    /\ dapps = {} /\ dapp_first = {}
    /\ dapp_calls = [c \in 1..NDappCalls |-> IdleCall]
    /\ dapp_clock = 1

\* Dapp::create_if_not_exists, line 120: DappEntity::new(url, public_suffix_list)?
DappNew(c, url) ==
    /\ dapp_calls[c].pc = "idle"
    /\ LET dapp_entity == DappEntity_new(url)
       IN dapp_calls' = [dapp_calls EXCEPT ![c] =
            IF dapp_entity.ok
            THEN [@ EXCEPT !.pc = "derive", !.entity = dapp_entity.val]
            ELSE [@ EXCEPT !.pc = "done", !.result = dapp_entity]]
    /\ UNCHANGED <<dapps, dapp_first, dapp_clock>>

\* DappEntity::create_if_not_exists, lines 194-195: the id and the time of creation
DappDerive(c) ==
    /\ dapp_calls[c].pc = "derive"
    /\ dapp_calls' = [dapp_calls EXCEPT ![c] =
            [@ EXCEPT !.pc = "insert",
                      !.id = DappEntity_deterministic_id(dapp_calls[c].entity),
                      !.created_at = rfc3339_timestamp(dapp_clock)]]
    /\ dapp_clock' \in {dapp_clock, dapp_clock + 1}
    /\ UNCHANGED <<dapps, dapp_first>>

\* DappEntity::create_if_not_exists, lines 197-206: the insert and Ok(id)
DappInsert(c) ==
    /\ dapp_calls[c].pc = "insert"
    /\ LET call == dapp_calls[c]
           row == [deterministic_id |-> call.id, identifier |-> call.entity.identifier,
                   url |-> call.entity.url, created_at |-> call.created_at,
                   updated_at |-> None]
           done == insert_on_conflict_do_nothing(dapps, row)
       IN /\ dapps' = done.table
          /\ dapp_first' = IF HasRow(dapp_first, row.deterministic_id)
                           THEN dapp_first ELSE dapp_first \cup {row}
          /\ dapp_calls' = [dapp_calls EXCEPT ![c] =
                [@ EXCEPT !.pc = "done",
                          !.result = IF done.res.ok THEN Ok(call.id) ELSE done.res]]
    /\ UNCHANGED dapp_clock

-----------------------------------------------------------------------------
(* AccountPicture::insert_bundled (account_picture.rs 46-92)               *)

NPicCalls == 2

\* the names asked for: three bundled pictures, two of them the same image, and
\* a name that is not bundled
ImageNames == {<<"p", "1">>, <<"p", "2">>, <<"p", "3">>, <<"n", "o">>}

\* assets::load_profile_pic
load_profile_pic(image_name) ==
    CASE image_name = <<"p", "1">> -> Ok(<<"i", "m", "g", "A">>)
      [] image_name = <<"p", "2">> -> Ok(<<"i", "m", "g", "B">>)
      [] image_name = <<"p", "3">> -> Ok(<<"i", "m", "g", "A">>)
      [] OTHER -> Err("Fatal")

\* utils::blake3_hash(..).as_bytes(): without collisions, the digest stands for
\* the image
blake3_hash(image) == <<"blake3">> \o image

\* a mutant: the insert ignoring a conflict
insert_ignoring_conflict(table, row) ==
    IF HasRow(table, row.deterministic_id)
    THEN [table |-> table, res |-> Ok(0)]
    ELSE [table |-> table \cup {row}, res |-> Ok(1)]

\* diesel::insert_into(..).values(..).execute(conn) on a table whose primary key is
\* deterministic_id: a second row of one id is refused
insert(table, row) ==
    IF HasRow(table, row.deterministic_id)
    THEN [table |-> table, res |-> Err("Database")]
    ELSE [table |-> table \cup {row}, res |-> Ok(1)]

IdlePicCall == [pc |-> "idle", image_name |-> <<>>, image |-> <<>>,
                entity |-> [image_hash |-> <<>>], id |-> NoId, created_at |-> <<>>,
                conflict |-> FALSE, result |-> Err("none")]

PicInit ==
    /\ profile_pictures = {} /\ pic_first = {}
    /\ pic_calls = [c \in 1..NPicCalls |-> IdlePicCall]
    /\ pic_clock = 1

\* AccountPicture::insert_bundled, lines 51-55
PicLoad(c, image_name) ==
    /\ pic_calls[c].pc = "idle"
    /\ LET image == load_profile_pic(image_name)
       IN pic_calls' = [pic_calls EXCEPT ![c] =
            IF image.ok
            THEN [@ EXCEPT !.pc = "derive", !.image_name = image_name,
                           !.image = image.val,
                           !.entity = [image_hash |-> blake3_hash(image.val)]]
            ELSE [@ EXCEPT !.pc = "done", !.image_name = image_name,
                           !.result = image]]
    /\ UNCHANGED <<profile_pictures, pic_first, pic_clock>>

\* AccountPictureEntity::create, lines 78-79
PicDerive(c) ==
    /\ pic_calls[c].pc = "derive"
    /\ pic_calls' = [pic_calls EXCEPT ![c] =
            [@ EXCEPT !.pc = "insert",
                      !.id = AccountPictureEntity_deterministic_id(pic_calls[c].entity),
                      !.created_at = rfc3339_timestamp(pic_clock)]]
    /\ pic_clock' \in {pic_clock, pic_clock + 1}
    /\ UNCHANGED <<profile_pictures, pic_first>>

\* AccountPictureEntity::create, lines 80-90
PicInsert(c) ==
    /\ pic_calls[c].pc = "insert"
    /\ LET call == pic_calls[c]
           row == [deterministic_id |-> call.id, image_name |-> Some(call.image_name),
                   image_hash |-> call.entity.image_hash, image |-> call.image,
                   created_at |-> call.created_at, updated_at |-> None]
           done == insert(profile_pictures, row)
       IN /\ profile_pictures' = done.table
          /\ pic_first' = IF HasRow(pic_first, row.deterministic_id)
                          THEN pic_first ELSE pic_first \cup {row}
          /\ pic_calls' = [pic_calls EXCEPT ![c] =
                [@ EXCEPT !.pc = "done",
                          !.conflict = HasRow(profile_pictures, call.id),
                          !.result = IF done.res.ok THEN Ok(call.id) ELSE done.res]]
    /\ UNCHANGED pic_clock

-----------------------------------------------------------------------------
(* Two derivations of a deterministic id side by side                      *)

MaxKeyLen == 2
KeyBytes == {"D", "a", "p"}

RECURSIVE KeysOfLen(_)
KeysOfLen(n) ==
    IF n = 0 THEN {<<>>}
    ELSE {<<b>> \o k : b \in KeyBytes, k \in KeysOfLen(n - 1)}

UniqueKeys == UNION {KeysOfLen(n) : n \in 1..MaxKeyLen}
EntityKinds == {"Dapp", "AccountPicture"}

\* the id of an entity of the kind, keyed by the bytes
DeriveFor(kind, key) ==
    IF kind = "Dapp"
    THEN DappEntity_deterministic_id([identifier |-> key, url |-> NoEntity.url])
    ELSE AccountPictureEntity_deterministic_id([image_hash |-> key])

IdInit ==
    /\ id_pc = "start"
    /\ id_a \in [kind : EntityKinds, key : UniqueKeys]
    /\ id_b \in [kind : EntityKinds, key : UniqueKeys]
    /\ id_out_a = NoId /\ id_out_b = NoId

DeriveIds ==
    /\ id_pc = "start"
    /\ id_out_a' = DeriveFor(id_a.kind, id_a.key)
    /\ id_out_b' = DeriveFor(id_b.kind, id_b.key)
    /\ id_pc' = "derived"
    /\ UNCHANGED <<id_a, id_b>>

-----------------------------------------------------------------------------
(* BackupMetadata::canonical_json (metadata.rs 77-92, 105-115)             *)

\* the order of bytes among the characters of the keys
KeyCharOrder ==
    <<"_", "a", "b", "c", "d", "e", "f", "g", "h", "i", "j", "k", "l", "m", "n",
      "o", "p", "q", "r", "s", "t", "u", "v", "w", "x", "y", "z">>
KeyCharRank(c) == CHOOSE i \in 1..Len(KeyCharOrder) : KeyCharOrder[i] = c

RECURSIVE BytesLess(_, _)
BytesLess(a, b) ==
    IF b = <<>> THEN FALSE
    ELSE IF a = <<>> THEN TRUE
    ELSE IF Head(a) # Head(b) THEN KeyCharRank(Head(a)) < KeyCharRank(Head(b))
    ELSE BytesLess(Tail(a), Tail(b))

\* Unicode NFC on the code points of the model: e followed by COMBINING ACUTE
\* ACCENT (u0301) composes to LATIN SMALL LETTER E WITH ACUTE (u00E9)
RECURSIVE nfc(_)
nfc(s) ==
    IF s = <<>> THEN <<>>
    ELSE IF Len(s) >= 2 /\ s[1] = "e" /\ s[2] = "u0301"
    THEN <<"u00E9">> \o nfc(SubSeq(s, 3, Len(s)))
    ELSE <<Head(s)>> \o nfc(Tail(s))

\* CanonicalFormatter::write_string_fragment
write_string_fragment(fragment) == nfc(fragment)

\* CanonicalFormatter::write_char_escape: only the quote and the backslash
write_char_escape(c) == <<"\\", c>>

\* serde_json's format_escaped_str_contents: the fragments between the escaped
\* characters, each written by the formatter
RECURSIVE format_escaped_str_contents(_, _)
format_escaped_str_contents(s, fragment) ==
    IF s = <<>> THEN write_string_fragment(fragment)
    ELSE IF Head(s) \in {"\"", "\\"}
    THEN write_string_fragment(fragment) \o write_char_escape(Head(s))
         \o format_escaped_str_contents(Tail(s), <<>>)
    ELSE format_escaped_str_contents(Tail(s), Append(fragment, Head(s)))

JsonString(s) == <<"\"">> \o format_escaped_str_contents(s, <<>>) \o <<"\"">>
JsonNumber(n) == i64_to_string(n)

Key_backup_scheme == <<"b","a","c","k","u","p","_","s","c","h","e","m","e">>
Key_backup_version == <<"b","a","c","k","u","p","_","v","e","r","s","i","o","n">>
Key_timestamp == <<"t","i","m","e","s","t","a","m","p">>
Key_device_id == <<"d","e","v","i","c","e","_","i","d">>
Key_device_name == <<"d","e","v","i","c","e","_","n","a","m","e">>
Key_operating_system == <<"o","p","e","r","a","t","i","n","g","_","s","y","s","t","e","m">>
Key_kdf_nonce == <<"k","d","f","_","n","o","n","c","e">>

\* #[derive(Serialize)] on BackupMetadata: the fields in the order of declaration
BackupMetadata_serialize(m) ==
    <<[key |-> Key_backup_scheme,
       value |-> JsonString(BackupScheme_to_string(m.backup_scheme))],
      [key |-> Key_backup_version,
       value |-> JsonNumber(BackupVersion_into_i64(m.backup_version))],
      [key |-> Key_timestamp, value |-> JsonNumber(m.timestamp)],
      [key |-> Key_device_id,
       value |-> JsonString(DeviceIdentifier_to_string(m.device_id))],
      [key |-> Key_device_name, value |-> JsonString(m.device_name)],
      [key |-> Key_operating_system,
       value |-> JsonString(OperatingSystem_to_string(m.operating_system))],
      [key |-> Key_kdf_nonce, value |-> JsonString(m.kdf_nonce)]>>

RECURSIVE InsertSorted(_, _)
InsertSorted(entry, sorted) ==
    IF sorted = <<>> THEN <<entry>>
    ELSE IF BytesLess(entry.key, Head(sorted).key) THEN <<entry>> \o sorted
    ELSE <<Head(sorted)>> \o InsertSorted(entry, Tail(sorted))

RECURSIVE SortEntries(_)
SortEntries(entries) ==
    IF entries = <<>> THEN <<>>
    ELSE InsertSorted(Head(entries), SortEntries(Tail(entries)))

RECURSIVE WriteEntries(_)
WriteEntries(entries) ==
    IF entries = <<>> THEN <<>>
    ELSE JsonString(Head(entries).key) \o <<":">> \o Head(entries).value
         \o (IF Len(entries) > 1 THEN <<",">> ELSE <<>>) \o WriteEntries(Tail(entries))

\* CanonicalFormatter::end_object: the entries of the object, sorted by key
CanonicalFormatter_object(entries) ==
    <<"{">> \o WriteEntries(SortEntries(entries)) \o <<"}">>

\* BackupMetadata::canonical_json
canonical_json(m) == Ok(CanonicalFormatter_object(BackupMetadata_serialize(m)))

MetaFields == {"backup_scheme", "backup_version", "timestamp", "device_id",
               "device_name", "operating_system", "kdf_nonce"}

JsonDeviceNames ==
    {<<"a">>, <<"u00E9">>, <<"e", "u0301">>, <<"a", "\"">>, <<"a", "\\">>}

JsonMetas ==
    [backup_scheme : BackupSchemes,
     backup_version : {0, 1},
     timestamp : {-5, 7},
     device_id : {<<"d", "-", "1">>, <<"D", "2">>},
     device_name : JsonDeviceNames,
     operating_system : {"Ios", "Android"},
     kdf_nonce : {<<"n", "=">>, <<"N", "=">>}]

FieldsDiffering(a, b) == {f \in MetaFields : a[f] # b[f]}

JsonInit ==
    /\ json_pc = "start"
    /\ json_a \in JsonMetas
    /\ json_b \in {b \in JsonMetas : Cardinality(FieldsDiffering(json_a, b)) <= 1}
    /\ json_out_a = <<>> /\ json_out_b = <<>>

CanonicalJson ==
    /\ json_pc = "start"
    /\ json_out_a' = canonical_json(json_a).val
    /\ json_out_b' = canonical_json(json_b).val
    /\ json_pc' = "done"
    /\ UNCHANGED <<json_a, json_b>>

-----------------------------------------------------------------------------
(* Specifications                                                          *)

othersVersion == <<codecVars, jsonVars, backupVars, dappVars, picVars, idVars>>

InitVersion ==
    /\ BvInit
    /\ CodecOff /\ JsonOff /\ BackupOff
    /\ DappOff /\ PicOff /\ IdOff

NextVersion ==
    \/ (\E n \in IntInputs : TryFrom(n)) /\ UNCHANGED othersVersion
    \/ (\E s \in StrInputs : FromStr(s)) /\ UNCHANGED othersVersion
    \/ (\E n \in IntInputs : Deserialize(n)) /\ UNCHANGED othersVersion
    \/ (\E v \in bv_pool : IntoI64(v)) /\ UNCHANGED othersVersion

SpecVersion == InitVersion /\ [][NextVersion]_vars

othersCodec == <<bvVars, jsonVars, backupVars, dappVars, picVars, idVars>>

InitCodec ==
    /\ CodecInit
    /\ BvOff /\ JsonOff /\ BackupOff
    /\ DappOff /\ PicOff /\ IdOff

NextCodec ==
    \/ (BackupFileName) /\ UNCHANGED othersCodec
    \/ (ParseFileName) /\ UNCHANGED othersCodec

SpecCodec == InitCodec /\ [][NextCodec]_vars

othersJson == <<bvVars, codecVars, backupVars, dappVars, picVars, idVars>>

InitJson ==
    /\ JsonInit
    /\ BvOff /\ CodecOff /\ BackupOff
    /\ DappOff /\ PicOff /\ IdOff

NextJson ==
    \/ (CanonicalJson) /\ UNCHANGED othersJson

SpecJson == InitJson /\ [][NextJson]_vars

othersBackup == <<bvVars, codecVars, jsonVars, dappVars, picVars, idVars>>

InitBackup ==
    /\ BackupInit
    /\ BvOff /\ CodecOff /\ JsonOff
    /\ DappOff /\ PicOff /\ IdOff

NextBackup ==
    \/ (WriterBegin) /\ UNCHANGED othersBackup
    \/ (WriterIncrementVersion) /\ UNCHANGED othersBackup
    \/ (WriterSetTimestamp) /\ UNCHANGED othersBackup
    \/ (WriterCommit) /\ UNCHANGED othersBackup
    \/ (Upload) /\ UNCHANGED othersBackup
    \/ (DeleteBackup) /\ UNCHANGED othersBackup
    \/ (DeferredTransactionBegin) /\ UNCHANGED othersBackup
    \/ (FetchBackupTimestamp) /\ UNCHANGED othersBackup
    \/ (FetchBackupVersion) /\ UNCHANGED othersBackup
    \/ (DeferredTransactionEnd) /\ UNCHANGED othersBackup
    \/ (TransactionFails) /\ UNCHANGED othersBackup
    \/ (MatchDatestamp) /\ UNCHANGED othersBackup
    \/ (IsUploaded) /\ UNCHANGED othersBackup
    \/ (Return) /\ UNCHANGED othersBackup
    \/ (NextCall) /\ UNCHANGED othersBackup

SpecBackup == InitBackup /\ [][NextBackup]_vars

othersDapp == <<bvVars, codecVars, jsonVars, backupVars, picVars, idVars>>

InitDapp ==
    /\ DappInit
    /\ BvOff /\ CodecOff /\ JsonOff
    /\ BackupOff /\ PicOff /\ IdOff

NextDapp ==
    \/ (\E c \in 1..NDappCalls, url \in Urls : DappNew(c, url)) /\ UNCHANGED othersDapp
    \/ (\E c \in 1..NDappCalls : DappDerive(c)) /\ UNCHANGED othersDapp
    \/ (\E c \in 1..NDappCalls : DappInsert(c)) /\ UNCHANGED othersDapp

SpecDapp == InitDapp /\ [][NextDapp]_vars

othersPicture == <<bvVars, codecVars, jsonVars, backupVars, dappVars, idVars>>

InitPicture ==
    /\ PicInit
    /\ BvOff /\ CodecOff /\ JsonOff
    /\ BackupOff /\ DappOff /\ IdOff

NextPicture ==
    \/ (\E c \in 1..NPicCalls, image_name \in ImageNames : PicLoad(c, image_name)) /\ UNCHANGED othersPicture
    \/ (\E c \in 1..NPicCalls : PicDerive(c)) /\ UNCHANGED othersPicture
    \/ (\E c \in 1..NPicCalls : PicInsert(c)) /\ UNCHANGED othersPicture

SpecPicture == InitPicture /\ [][NextPicture]_vars

othersId == <<bvVars, codecVars, jsonVars, backupVars, dappVars, picVars>>

InitId ==
    /\ IdInit
    /\ BvOff /\ CodecOff /\ JsonOff
    /\ BackupOff /\ DappOff /\ PicOff

NextId ==
    \/ (DeriveIds) /\ UNCHANGED othersId

SpecId == InitId /\ [][NextId]_vars

-----------------------------------------------------------------------------
(* Claims about BackupVersion                                              *)

\* what i64 reads in each input string: the literals and their values
LiteralValues ==
    {<<Str_0, 0>>, <<Str_7, 7>>, <<Str_plus5, 5>>, <<Str_007, 7>>, <<Str_minus0, 0>>,
     <<Str_minus1, -1>>, <<Str_minus12, -12>>}
IsLiteral(s) == \E e \in LiteralValues : e[1] = s
LiteralValue(s) == (CHOOSE e \in LiteralValues : e[1] = s)[2]

\* C6: every BackupVersion that exists wraps an integer >= 0, however it was
\* constructed; try_from(n) and deserialization succeed exactly when n >= 0 and
\* then wrap n unchanged; a use of an existing value gives a value >= 0.
C6_NonNegative ==
    /\ \A v \in bv_pool : v >= 0
    /\ bv_last.op \in {"try_from", "deserialize"} =>
          /\ bv_last.res.ok <=> bv_last.n >= 0
          /\ bv_last.res.ok => bv_last.res.val = bv_last.n /\ bv_last.n \in bv_pool
    /\ bv_last.op = "from_str" /\ bv_last.res.ok =>
          bv_last.res.val >= 0 /\ bv_last.res.val \in bv_pool
    /\ bv_last.op = "into" => bv_last.res.val >= 0 /\ bv_last.res.val = bv_last.n

C6_Witness ==
    /\ bv_last.op = "deserialize" /\ bv_last.n = 0 /\ bv_last.res = Ok(0)
    /\ {0, 3, 5, 7} \subseteq bv_pool

\* C7: from_str(s) fails Retriable exactly when s is no signed 64-bit integer
\* literal, fails Fatal when s is a literal of a negative value, and succeeds
\* otherwise; try_from(n) fails Fatal for every n < 0 and succeeds otherwise.
C7_ErrorKinds ==
    /\ bv_last.op = "from_str" =>
          /\ bv_last.res = Err("Retriable") <=> ~IsLiteral(bv_last.s)
          /\ IsLiteral(bv_last.s) /\ LiteralValue(bv_last.s) < 0 =>
                bv_last.res = Err("Fatal")
          /\ IsLiteral(bv_last.s) /\ LiteralValue(bv_last.s) >= 0 =>
                bv_last.res = Ok(LiteralValue(bv_last.s))
    /\ bv_last.op = "try_from" =>
          /\ bv_last.n < 0 => bv_last.res = Err("Fatal")
          /\ bv_last.n >= 0 => bv_last.res = Ok(bv_last.n)

C7_Witness ==
    /\ bv_last.op = "from_str" /\ bv_last.s = Str_minus12
    /\ bv_last.res = Err("Fatal")
    /\ 7 \in bv_pool

-----------------------------------------------------------------------------
(* Claims about the file name codec                                        *)

\* C4: parsing a file name fails with a Fatal error for every input it does not
\* accept, and never with a Retriable one.
C4_ParseErrorsAreFatal ==
    codec_pc = "parsed" /\ ~codec_out.ok => codec_out.err = "Fatal"

\* C5: for every valid BackupMetadata m (timestamp >= 0), parsing
\* m.backup_file_name() succeeds and yields m's timestamp, operating system,
\* device id and backup version.
C5_RoundTrip ==
    codec_pc = "parsed" /\ codec_in.kind = "meta" /\ codec_in.meta.timestamp >= 0 =>
        codec_out = Ok([timestamp |-> codec_in.meta.timestamp,
                        os |-> codec_in.meta.operating_system,
                        device_id |-> codec_in.meta.device_id,
                        backup_version |-> codec_in.meta.backup_version])

C5_Witness ==
    /\ codec_pc = "parsed" /\ codec_in.kind = "meta" /\ codec_out.ok
    /\ codec_in.meta.timestamp = 1700000000
    /\ codec_in.meta.operating_system = "MacOS"
    /\ codec_in.meta.backup_version = 2

\* the "_"-separated fields between the prefix and the suffix of a file name
NameFields(file_name) ==
    IF StartsWith(file_name, FileNamePrefix) /\ EndsWith(file_name, FileNameSuffix)
       /\ Len(file_name) >= Len(FileNamePrefix) + Len(FileNameSuffix)
    THEN SplitOn(SubSeq(file_name, Len(FileNamePrefix) + 1,
                        Len(file_name) - Len(FileNameSuffix)), "_", <<>>)
    ELSE <<>>

\* the file name of the same fields with another scheme field
WithScheme(f, scheme) ==
    Concat(<<FileNamePrefix, scheme, <<"_">>, f[2], <<"_">>, f[3], <<"_">>, f[4],
             <<"_">>, f[5], FileNameSuffix>>)

SupportedSchemeTokens == {BackupScheme_to_string(scheme) : scheme \in BackupSchemes}

\* C12 as claimed: parsing validates the scheme field as a fixed token, so that a
\* file name whose scheme field is not the token of a supported backup scheme is
\* rejected, however well formed the rest of it is.
C12_SchemeIsFixedToken ==
    codec_pc = "parsed" /\ codec_in.kind = "name" =>
        LET f == NameFields(codec_name)
        IN Len(f) = 5 /\ f[1] \notin SupportedSchemeTokens => ~codec_out.ok

\* C12 as amended: parsing checks the scheme field against its character class
\* only.  A file name with a non-empty scheme field of [A-Za-z0-9-] characters is
\* parsed to the result of the same name with the scheme v1; a file name whose
\* scheme field is empty or holds another character is rejected as Fatal.
C12_SchemeClassOnly ==
    codec_pc = "parsed" /\ codec_in.kind = "name" =>
        LET f == NameFields(codec_name)
        IN Len(f) = 5 =>
              IF OneOrMore(f[1], TokenChar)
              THEN codec_out = MetadataFromFileName_from_str(WithScheme(f, <<"v", "1">>))
              ELSE codec_out = Err("Fatal")

\* sealvault_backup_zz_mac-os_5_d-1_3.zip is parsed
C12_Witness ==
    /\ codec_pc = "parsed" /\ codec_in.kind = "name"
    /\ Len(NameFields(codec_name)) = 5 /\ NameFields(codec_name)[1] = <<"z", "z">>
    /\ codec_out = Ok([timestamp |-> 5, os |-> "MacOS", device_id |-> <<"d", "-", "1">>,
                       backup_version |-> 3])

\* sealvault_backup_<scheme>_<os>_<timestamp>_<device_id>_<version>.zip with
\* <scheme>, <os>, <device_id> in [A-Za-z0-9-]+, <timestamp>, <version> in [0-9]+
MatchesGrammar(file_name) ==
    LET f == NameFields(file_name)
    IN /\ Len(f) = 5
       /\ OneOrMore(f[1], TokenChar) /\ OneOrMore(f[2], TokenChar)
       /\ OneOrMore(f[3], AsciiDigit) /\ OneOrMore(f[4], TokenChar)
       /\ OneOrMore(f[5], AsciiDigit)

\* C13: for every BackupMetadata value, the timestamp being any i64 and the
\* version any BackupVersion, backup_file_name writes timestamp and version as
\* unsigned decimals, so that the name it returns matches the grammar of backup
\* file names.
C13_NameMatchesGrammar ==
    codec_in.kind = "meta" /\ codec_pc \in {"named", "parsed"} =>
        MatchesGrammar(codec_name)

-----------------------------------------------------------------------------
(* Claims about last_uploaded_backup                                       *)

\* sealvault_backup_v1_<default OS>_<T>_<device id>_<version>.zip
ExpectedFileName(T, version) ==
    <<"s","e","a","l","v","a","u","l","t","_","b","a","c","k","u","p","_","v","1","_">>
    \o OperatingSystem_to_string(host_os) \o <<"_">> \o NatToDigits(T) \o <<"_">>
    \o device_id \o <<"_">> \o NatToDigits(version) \o <<".", "z", "i", "p">>

\* C1: for the state of the local settings the call read and the state of the
\* storage it asked, the call returns Some(T) exactly when a timestamp is recorded,
\* T is its unix time and the storage holds the file named after scheme V1, the
\* default OS, T, the device id and the recorded version; it returns None when no
\* timestamp is recorded and when the storage does not hold that file.
C1_SomeIffUploaded ==
    pc = "done" /\ l_pair.some =>
        LET view == tx_snapshot.view
        IN /\ ~view.timestamp.some => result = Ok(None)
           /\ view.timestamp.some /\ parse_rfc3339_timestamp(view.timestamp.val).ok =>
                 LET T == parse_rfc3339_timestamp(view.timestamp.val).val
                 IN result = Ok(IF ExpectedFileName(T, view.version) \in storage_at_ask
                                THEN Some(T) ELSE None)
           /\ result.ok /\ result.val.some =>
                 /\ view.timestamp.some
                 /\ parse_rfc3339_timestamp(view.timestamp.val) = Ok(result.val.val)

C1_Witness ==
    /\ pc = "done" /\ result = Ok(Some(2))
    /\ settings.version = 2 /\ Cardinality(storage_at_ask) = 2

\* C2: whatever a concurrent writer does, the (version, timestamp) pair the call
\* takes out of the transaction, and builds the file name from, is the pair of one
\* committed state of the local settings.
C2_ConsistentPair ==
    /\ l_pair.some =>
          \E s \in committed : l_pair.val = <<s.version, s.timestamp>>
    /\ pc \in {"is_uploaded", "return"} =>
          \E s \in committed :
              /\ s.timestamp.some /\ parse_rfc3339_timestamp(s.timestamp.val).ok
              /\ l_file_name =
                    ExpectedFileName(parse_rfc3339_timestamp(s.timestamp.val).val,
                                     s.version)

\* the writer committed a new backup between the two reads of the transaction
C2_Witness ==
    /\ pc = "is_uploaded"
    /\ tx_snapshot.view # settings
    /\ l_pair = Some(<<1, Some(rfc3339_timestamp(1))>>)
    /\ settings = [version |-> 2, timestamp |-> Some(rfc3339_timestamp(2))]

\* C11: the storage's is_uploaded is invoked only after the deferred transaction
\* that read version and timestamp has ended: while the call is about to ask the
\* storage the transaction is closed and has handed over its pair, and while the
\* transaction is open the call is inside the closure and has not asked.
C11_AskedOutsideTransaction ==
    /\ pc = "is_uploaded" =>
          ~tx_snapshot.open /\ tx_snapshot.taken /\ l_pair.some
    /\ tx_snapshot.open =>
          /\ pc \in {"fetch_timestamp", "fetch_version", "commit"}
          /\ is_uploaded_calls = 0

\* the call is about to ask the storage while a writer's transaction is under way
C11_Witness ==
    /\ pc = "is_uploaded" /\ ~tx_snapshot.open
    /\ l_pair = Some(<<1, Some(rfc3339_timestamp(1))>>)
    /\ wtx.stage = "timestamp"

\* the calls of is_uploaded a call has made, by its outcome
C14_Calls ==
    /\ is_uploaded_calls \in {0, 1}
    /\ is_uploaded_calls = 1 =>
          /\ pc \in {"return", "done"} /\ l_pair.some /\ l_pair.val[2].some
          /\ parse_rfc3339_timestamp(l_pair.val[2].val).ok
    /\ pc = "done" =>
          \* the transaction failed
          /\ ~l_pair.some => is_uploaded_calls = 0 /\ ~result.ok
          \* no backup timestamp is recorded
          /\ l_pair.some /\ ~l_pair.val[2].some =>
                is_uploaded_calls = 0 /\ result = Ok(None)
          \* the recorded timestamp does not parse
          /\ l_pair.some /\ l_pair.val[2].some
                /\ ~parse_rfc3339_timestamp(l_pair.val[2].val).ok =>
                is_uploaded_calls = 0 /\ ~result.ok
          /\ l_pair.some /\ l_pair.val[2].some
                /\ parse_rfc3339_timestamp(l_pair.val[2].val).ok =>
                is_uploaded_calls = 1 /\ result.ok

\* a step of the call leaves the local settings and the storage as they are
C14_Frame ==
    readerVars' # readerVars =>
        UNCHANGED <<settings, committed, wtx, storage>>

\* C14: a call of last_uploaded_backup invokes is_uploaded at most once, and not
\* at all when the transaction fails, when no backup timestamp is recorded or when
\* the recorded timestamp does not parse; when it does not parse the call returns
\* the error, neither None nor Some; no step of the call changes the local
\* settings or the storage.
C14_AtMostOneQueryNoEffect == []C14_Calls /\ [][C14_Frame]_vars

\* a call has returned the error of a recorded timestamp that does not parse,
\* while the storage holds a backup
C14_Witness ==
    /\ pc = "done" /\ l_pair = Some(<<0, Some(CorruptDatestamp)>>)
    /\ ~result.ok /\ is_uploaded_calls = 0 /\ asked = <<>>
    /\ storage # {}

-----------------------------------------------------------------------------
(* Claims about Dapp::create_if_not_exists                                 *)

DappInserted(I) ==
    {c \in 1..NDappCalls : dapp_calls[c].pc = "done" /\ dapp_calls[c].entity.identifier = I}

-----------------------------------------------------------------------------
(* Claims about AccountPicture::insert_bundled                             *)

RowsOf(table, id) == {r \in table : r.deterministic_id = id}

-----------------------------------------------------------------------------
(* Claims about the derivation of ids                                      *)

\* C10: for Dapp (keyed by its identifier) and AccountPicture (keyed by its image
\* hash), two derivations under different namespace tags with the same key bytes
\* give different ids, and two derivations under one tag with different keys give
\* different ids.
C10_NoCollision ==
    id_pc = "derived" =>
        /\ id_a.kind # id_b.kind /\ id_a.key = id_b.key => id_out_a # id_out_b
        /\ id_a.kind = id_b.kind /\ id_a.key # id_b.key => id_out_a # id_out_b

C10_Witness ==
    /\ id_pc = "derived"
    /\ id_a = [kind |-> "Dapp", key |-> <<"a", "p">>]
    /\ id_b = [kind |-> "AccountPicture", key |-> <<"a", "p">>]
    /\ id_out_a # id_out_b

-----------------------------------------------------------------------------
(* Claims about canonical_json                                             *)

\* C8: two metadata values equal in all seven fields have the same canonical
\* output, and two values that differ in one field have different outputs.
C8_Injective ==
    json_pc = "done" =>
        /\ json_a = json_b => json_out_a = json_out_b
        /\ Cardinality(FieldsDiffering(json_a, json_b)) = 1 => json_out_a # json_out_b

====
